---- MODULE Spec2Model ----
(***************************************************************************)
(* Request execution and resilience core of the Blacklist Alliance client  *)
(* (src/src/client.js): the retry loop of _request, the circuit breaker    *)
(* kept on the client instance, and cancellation through an external       *)
(* AbortSignal composed with the per-attempt timeout.                      *)
(*                                                                         *)
(* One step of the model is one synchronous run of JavaScript between two  *)
(* suspension points (await) of _request, or one event of the environment  *)
(* (the caller aborting its signal, a timeout timer firing, the clock      *)
(* advancing).  Concurrent operations of one client interleave only at     *)
(* those points and share the circuit breaker.                             *)
(***************************************************************************)
EXTENDS Integers, Sequences, FiniteSets, TLC

\* ------------------------------------------------------------------ bounds

\* options.retries is drawn from 0..MaxRetries
MaxRetries == 2
\* circuitBreaker.failureThreshold is drawn from 1..MaxThreshold
MaxThreshold == 2
\* circuitBreaker.resetTimeoutMs, in clock ticks
ResetTimeoutMs == 1
\* the clock (Date.now()) runs from 1 to MaxTime
MaxTime == 3
\* operations the callers issue in one behaviour
MaxCalls == 3

\* BATCH_LIMIT of _batchBySize: 5000 in the code, scaled so that lists of a
\* few items split into several batches
BatchLimit == 2
\* the longest list handed to a bulk method or a helper
MaxItems == 5
\* the most per-batch results handed to a merge helper
MaxResults == 2
\* the longest list of submitted emails handed to an email helper
MaxEmails == 3
MaxAttempt == 9
RandomSteps == 4

\* the callers that may have an operation running on the client at once
Ops == {"a", "b"}

\* HTTP statuses the upstream answers with: success, a non-retryable 4xx,
\* the rate limit and a server failure
Statuses == {200, 403, 429, 502}

VARIABLES
    op,         \* per caller: the running _request invocation
    cb,         \* this._circuitBreaker
    retries,    \* this.retries
    onRequest,  \* this.onRequest is configured
    onResponse, \* this.onResponse is configured
    now,        \* Date.now()
    calls,      \* operations issued so far
    callers,    \* the callers that issue operations in this behaviour
    streak,     \* operations that ended in a reported-class failure since the
                \* last one that succeeded (history, for the breaker claims)
    bulk,       \* the public method a caller has called and its locals
    pure        \* a helper function, its arguments and what it returned

vars == <<op, cb, retries, onRequest, onResponse, now, calls, callers, streak, bulk, pure>>

\* ------------------------------------------------------------------ errors

\* An error value: cls is the class instanceof sees, name / code / statusCode /
\* message the properties the code reads.
Err(cls, name, code, statusCode, message) ==
    [cls |-> cls, name |-> name, code |-> code, statusCode |-> statusCode,
     message |-> message]

NoOutcome == Err("none", "", "", 0, "")
Success(status) == Err("ok", "", "", status, "")

\* new TimeoutError(message, null)
TimeoutError(message) == Err("TimeoutError", "TimeoutError", "", 0, message)
\* new NetworkError(error.message, error)
NetworkError == Err("NetworkError", "NetworkError", "", 0, "network")
\* new CircuitBreakerError(...)
CircuitBreakerError ==
    Err("CircuitBreakerError", "CircuitBreakerError", "", 0, "Circuit breaker is OPEN")

\* what fetch() and the hooks can throw: plain JavaScript errors
AbortError == Err("Error", "AbortError", "", 0, "Aborted")
ConnReset == Err("Error", "Error", "ECONNRESET", 0, "reset")
TypeError == Err("Error", "TypeError", "", 0, "fetch failed")
PlainError == Err("Error", "Error", "", 0, "error")

\* BlacklistAllianceError.fromResponse: the subclass by status code
FromResponseClass(status) ==
    IF status \in {401, 403} THEN "AuthenticationError"
    ELSE IF status = 429 THEN "RateLimitError"
    ELSE IF status = 408 THEN "TimeoutError"
    ELSE IF status \in {400, 422} THEN "ValidationError"
    ELSE IF status >= 500 THEN "ServerError"
    ELSE "BlacklistAllianceError"

FromResponse(status) ==
    Err(FromResponseClass(status), FromResponseClass(status), "", status, "API request failed")

\* error instanceof BlacklistAllianceError
IsBlacklistAllianceError(error) == error.cls \notin {"Error", "none", "ok"}

\* _isRetryable with every 4xx/5xx status taken for transient
IsRetryableAnyStatus(error) ==
    IF error.cls \in {"NetworkError", "TimeoutError"} THEN TRUE
    ELSE IF IsBlacklistAllianceError(error) THEN error.statusCode >= 400
    ELSE error.name = "TypeError" \/ error.code = "ECONNRESET"

\* _isRetryable(error)
IsRetryable(error) ==
    IF error.cls \in {"NetworkError", "TimeoutError"} THEN TRUE
    ELSE IF IsBlacklistAllianceError(error)
         THEN error.statusCode >= 500 \/ error.statusCode = 408 \/ error.statusCode = 429
    ELSE error.name = "TypeError" \/ error.code = "ECONNRESET"

\* ------------------------------------------------------------ circuit breaker

\* _changeCircuitState(newState); onStateChange holds what the observer was told
ChangeCircuitState(b, newState) ==
    [b EXCEPT !.state = newState, !.onStateChange = Append(@, newState)]

\* _checkCircuitBreaker with the cooldown compared by > instead of >=
CheckCircuitBreakerStrict(b, t) ==
    IF ~b.enabled THEN [cb |-> b, throws |-> FALSE]
    ELSE LET b1 == IF /\ b.state = "OPEN"
                      /\ b.lastFailureTime # 0
                      /\ t - b.lastFailureTime > b.resetTimeoutMs
                   THEN ChangeCircuitState(b, "HALF_OPEN")
                   ELSE b
         IN [cb |-> b1, throws |-> b1.state = "OPEN"]

\* _checkCircuitBreaker closing the breaker itself once the cooldown is over
CheckCircuitBreakerCloses(b, t) ==
    IF ~b.enabled THEN [cb |-> b, throws |-> FALSE]
    ELSE LET b1 == IF /\ b.state = "OPEN"
                      /\ b.lastFailureTime # 0
                      /\ t - b.lastFailureTime >= b.resetTimeoutMs
                   THEN ChangeCircuitState(b, "CLOSED")
                   ELSE b
         IN [cb |-> b1, throws |-> b1.state = "OPEN"]

\* _checkCircuitBreaker recording the call it rejects as a failure
CheckCircuitBreakerCountsRejection(b, t) ==
    IF ~b.enabled THEN [cb |-> b, throws |-> FALSE]
    ELSE LET b1 == IF /\ b.state = "OPEN"
                      /\ b.lastFailureTime # 0
                      /\ t - b.lastFailureTime >= b.resetTimeoutMs
                   THEN ChangeCircuitState(b, "HALF_OPEN")
                   ELSE b
         IN IF b1.state = "OPEN"
            THEN [cb |-> [b1 EXCEPT !.failures = @ + 1, !.lastFailureTime = t],
                  throws |-> TRUE]
            ELSE [cb |-> b1, throws |-> FALSE]

\* _checkCircuitBreaker(): the breaker after the time-based transition, and
\* whether the call throws CircuitBreakerError
CheckCircuitBreaker(b, t) ==
    IF ~b.enabled THEN [cb |-> b, throws |-> FALSE]
    ELSE LET b1 == IF /\ b.state = "OPEN"
                      /\ b.lastFailureTime # 0
                      /\ t - b.lastFailureTime >= b.resetTimeoutMs
                   THEN ChangeCircuitState(b, "HALF_OPEN")
                   ELSE b
         IN [cb |-> b1, throws |-> b1.state = "OPEN"]

\* _recordSuccess without the HALF_OPEN branch
RecordSuccessClosedOnly(b) ==
    IF ~b.enabled THEN b
    ELSE IF b.state = "CLOSED" THEN [b EXCEPT !.failures = 0]
    ELSE b

\* _recordSuccess closing the breaker without `cb.failures = 0`
RecordSuccessKeepsCount(b) ==
    IF ~b.enabled THEN b
    ELSE IF b.state = "HALF_OPEN" THEN ChangeCircuitState(b, "CLOSED")
    ELSE IF b.state = "CLOSED" THEN [b EXCEPT !.failures = 0]
    ELSE b

\* _recordSuccess without the reset of the count while CLOSED
RecordSuccessNoReset(b) ==
    IF ~b.enabled THEN b
    ELSE IF b.state = "HALF_OPEN"
         THEN ChangeCircuitState([b EXCEPT !.failures = 0], "CLOSED")
    ELSE b

\* _recordSuccess()
RecordSuccess(b) ==
    IF ~b.enabled THEN b
    ELSE IF b.state = "HALF_OPEN"
         THEN ChangeCircuitState([b EXCEPT !.failures = 0], "CLOSED")
    ELSE IF b.state = "CLOSED" THEN [b EXCEPT !.failures = 0]
    ELSE b

\* _recordFailure with the threshold compared by > instead of >=
RecordFailureAboveThreshold(b, t) ==
    IF ~b.enabled THEN b
    ELSE LET b1 == [b EXCEPT !.failures = @ + 1, !.lastFailureTime = t]
             b2 == IF b1.state = "CLOSED" /\ b1.failures > b1.failureThreshold
                   THEN ChangeCircuitState(b1, "OPEN")
                   ELSE b1
         IN IF b2.state = "HALF_OPEN" THEN ChangeCircuitState(b2, "OPEN") ELSE b2

\* _recordFailure without the HALF_OPEN branch
RecordFailureNoReopen(b, t) ==
    IF ~b.enabled THEN b
    ELSE LET b1 == [b EXCEPT !.failures = @ + 1, !.lastFailureTime = t]
         IN IF b1.state = "CLOSED" /\ b1.failures >= b1.failureThreshold
            THEN ChangeCircuitState(b1, "OPEN")
            ELSE b1

\* _recordFailure without `if (!this._circuitBreaker.enabled) return`
RecordFailureWhenDisabled(b, t) ==
    LET b1 == [b EXCEPT !.failures = @ + 1, !.lastFailureTime = t]
        b2 == IF b1.state = "CLOSED" /\ b1.failures >= b1.failureThreshold
              THEN ChangeCircuitState(b1, "OPEN")
              ELSE b1
    IN IF b2.state = "HALF_OPEN" THEN ChangeCircuitState(b2, "OPEN") ELSE b2

\* _recordFailure telling the observer OPEN at every failure at or past the
\* threshold
RecordFailureReportsEach(b, t) ==
    IF ~b.enabled THEN b
    ELSE LET b1 == [b EXCEPT !.failures = @ + 1, !.lastFailureTime = t]
         IN IF b1.failures >= b1.failureThreshold \/ b1.state = "HALF_OPEN"
            THEN ChangeCircuitState(b1, "OPEN")
            ELSE b1

\* _recordFailure without `cb.lastFailureTime = Date.now()`
RecordFailureNoTimestamp(b, t) ==
    IF ~b.enabled THEN b
    ELSE LET b1 == [b EXCEPT !.failures = @ + 1]
             b2 == IF b1.state = "CLOSED" /\ b1.failures >= b1.failureThreshold
                   THEN ChangeCircuitState(b1, "OPEN")
                   ELSE b1
         IN IF b2.state = "HALF_OPEN" THEN ChangeCircuitState(b2, "OPEN") ELSE b2

\* _recordFailure()
RecordFailure(b, t) ==
    IF ~b.enabled THEN b
    ELSE LET b1 == [b EXCEPT !.failures = @ + 1, !.lastFailureTime = t]
             b2 == IF b1.state = "CLOSED" /\ b1.failures >= b1.failureThreshold
                   THEN ChangeCircuitState(b1, "OPEN")
                   ELSE b1
         IN IF b2.state = "HALF_OPEN" THEN ChangeCircuitState(b2, "OPEN") ELSE b2

\* ------------------------------------------------------------------ _request

\* a caller with no operation running
Idle ==
    [pc |-> "idle", attempt |-> 0, aborted |-> FALSE, ctrlAborted |-> FALSE,
     timer |-> FALSE, listener |-> FALSE, status |-> 0, outcome |-> NoOutcome,
     fetchCalls |-> 0, onRequestCalls |-> 0]

\* the invocation settles: it returns data or throws, and its controller is
\* dropped
Settle(r, outcome) == [r EXCEPT !.pc = "done", !.outcome = outcome, !.ctrlAborted = FALSE]

\* top of a loop iteration without the setTimeout
StartIterationUnarmed(r, attempt) ==
    [r EXCEPT !.attempt = attempt, !.ctrlAborted = FALSE, !.timer = FALSE,
              !.listener = TRUE, !.status = 0]

\* top of a loop iteration: new AbortController, setTimeout, addEventListener
StartIteration(r, attempt) ==
    [r EXCEPT !.attempt = attempt, !.ctrlAborted = FALSE, !.timer = TRUE,
              !.listener = TRUE, !.status = 0]

\* `continue`: attempt++, the next iteration starts and, attempt being > 0,
\* suspends in the backoff sleep
Continue(r) == [StartIteration(r, r.attempt + 1) EXCEPT !.pc = "sleep"]

\* fetch(url, {signal: controller.signal})
CallFetch(r) == [r EXCEPT !.pc = "fetch", !.fetchCalls = @ + 1]

\* the catch block without `if (wasExternalAbort) throw lastError`
CatchRetriesAbort(r, b, t, error) ==
    LET r1 == [r EXCEPT !.timer = FALSE, !.listener = FALSE]
        lastError ==
            IF error.name = "AbortError"
            THEN TimeoutError(IF r.aborted THEN "Request aborted" ELSE "Request timeout")
            ELSE IF error.code \in {"ECONNRESET", "ENOTFOUND", "ECONNREFUSED"}
                 THEN NetworkError
            ELSE error
    IN IF IsRetryable(lastError) /\ r.attempt < retries
       THEN [op |-> Continue(r1), cb |-> b]
       ELSE [op |-> Settle(r1, lastError), cb |-> RecordFailure(b, t)]

\* the catch block with the internal timeout thrown at once, like an abort
CatchTimeoutNotRetried(r, b, t, error) ==
    LET r1 == [r EXCEPT !.timer = FALSE, !.listener = FALSE]
        wasExternalAbort == r.aborted
        lastError ==
            IF error.name = "AbortError"
            THEN TimeoutError(IF wasExternalAbort THEN "Request aborted"
                              ELSE "Request timeout")
            ELSE IF error.code \in {"ECONNRESET", "ENOTFOUND", "ECONNREFUSED"}
                 THEN NetworkError
            ELSE error
    IN IF error.name = "AbortError" /\ wasExternalAbort
       THEN [op |-> Settle(r1, lastError), cb |-> b]
       ELSE IF error.name # "AbortError" /\ IsRetryable(lastError) /\ r.attempt < retries
            THEN [op |-> Continue(r1), cb |-> b]
       ELSE [op |-> Settle(r1, lastError), cb |-> RecordFailure(b, t)]

\* the catch block without clearTimeout and removeEventListener
CatchKeepsTimer(r, b, t, error) ==
    LET wasExternalAbort == r.aborted
        lastError ==
            IF error.name = "AbortError"
            THEN TimeoutError(IF wasExternalAbort THEN "Request aborted"
                              ELSE "Request timeout")
            ELSE IF error.code \in {"ECONNRESET", "ENOTFOUND", "ECONNREFUSED"}
                 THEN NetworkError
            ELSE error
    IN IF error.name = "AbortError" /\ wasExternalAbort
       THEN [op |-> Settle(r, lastError), cb |-> b]
       ELSE IF IsRetryable(lastError) /\ r.attempt < retries
            THEN [op |-> Continue(r), cb |-> b]
       ELSE [op |-> Settle(r, lastError), cb |-> RecordFailure(b, t)]

\* the catch block of the loop body
Catch(r, b, t, error) ==
    LET r1 == [r EXCEPT !.timer = FALSE, !.listener = FALSE]
        wasExternalAbort == r.aborted
        lastError ==
            IF error.name = "AbortError"
            THEN TimeoutError(IF wasExternalAbort THEN "Request aborted"
                              ELSE "Request timeout")
            ELSE IF error.code \in {"ECONNRESET", "ENOTFOUND", "ECONNREFUSED"}
                 THEN NetworkError
            ELSE error
    IN IF error.name = "AbortError" /\ wasExternalAbort
       THEN [op |-> Settle(r1, lastError), cb |-> b]
       ELSE IF IsRetryable(lastError) /\ r.attempt < retries
            THEN [op |-> Continue(r1), cb |-> b]
       ELSE [op |-> Settle(r1, lastError), cb |-> RecordFailure(b, t)]

\* the loop body calling the onRequest hook for the first attempt only
BeginAttemptHookOnce(r, b, t) ==
    IF r.aborted
    THEN Catch(r, b, t, TimeoutError("Request aborted"))
    ELSE IF onRequest /\ r.attempt = 0
         THEN [op |-> [r EXCEPT !.pc = "onRequest", !.onRequestCalls = @ + 1], cb |-> b]
    ELSE [op |-> CallFetch(r), cb |-> b]

\* the loop body after the backoff: the abort re-check, then the onRequest hook
\* or, without one, fetch
BeginAttempt(r, b, t) ==
    IF r.aborted
    THEN Catch(r, b, t, TimeoutError("Request aborted"))
    ELSE IF onRequest
         THEN [op |-> [r EXCEPT !.pc = "onRequest", !.onRequestCalls = @ + 1], cb |-> b]
    ELSE [op |-> CallFetch(r), cb |-> b]

\* the response handling with the retry budget compared by <= instead of <
HandleResponseOneMore(r, b, t) ==
    IF r.status # 200
    THEN LET error == FromResponse(r.status)
         IN IF IsRetryable(error) /\ r.attempt <= retries
            THEN [op |-> Continue(r), cb |-> b]
            ELSE Catch(r, b, t, error)
    ELSE IF onResponse
         THEN [op |-> [r EXCEPT !.pc = "onResponse"], cb |-> b]
    ELSE [op |-> Settle(r, Success(r.status)), cb |-> RecordSuccess(b)]

\* the response handling with _recordFailure called before every retry
HandleResponseRecordsRetry(r, b, t) ==
    IF r.status # 200
    THEN LET error == FromResponse(r.status)
         IN IF IsRetryable(error) /\ r.attempt < retries
            THEN [op |-> Continue(r), cb |-> RecordFailure(b, t)]
            ELSE Catch(r, b, t, error)
    ELSE IF onResponse
         THEN [op |-> [r EXCEPT !.pc = "onResponse"], cb |-> b]
    ELSE [op |-> Settle(r, Success(r.status)), cb |-> RecordSuccess(b)]

\* the response is read: a non-2xx status is classified and retried or thrown,
\* a 2xx one goes to the onResponse hook or is returned
HandleResponse(r, b, t) ==
    IF r.status # 200
    THEN LET error == FromResponse(r.status)
         IN IF IsRetryable(error) /\ r.attempt < retries
            THEN [op |-> Continue(r), cb |-> b]
            ELSE Catch(r, b, t, error)
    ELSE IF onResponse
         THEN [op |-> [r EXCEPT !.pc = "onResponse"], cb |-> b]
    ELSE [op |-> Settle(r, Success(r.status)), cb |-> RecordSuccess(b)]

\* _request up to its first suspension
EnterRequest(r, b, t) ==
    LET chk == CheckCircuitBreaker(b, t)
    IN IF chk.throws
       THEN [op |-> Settle(r, CircuitBreakerError), cb |-> chk.cb]
       ELSE IF r.aborted
            THEN [op |-> Settle(r, TimeoutError("Request aborted")), cb |-> chk.cb]
       ELSE BeginAttempt(StartIteration(r, 0), chk.cb, t)

\* failures of the classes that are reported to the breaker
IsFailure(outcome) ==
    /\ outcome.cls \notin {"ok", "none", "CircuitBreakerError"}
    /\ outcome.message # "Request aborted"

NextStreak(r) ==
    IF r.pc # "done" THEN streak
    ELSE IF r.outcome.cls = "ok" THEN 0
    ELSE IF IsFailure(r.outcome) THEN streak + 1
    ELSE streak

\* caller o's invocation and the breaker move to res
Step(o, res) ==
    /\ op' = [op EXCEPT ![o] = res.op]
    /\ cb' = res.cb
    /\ streak' = NextStreak(res.op)

\* ------------------------------------------------------------------ actions

\* no public method is being followed
NoBulk == [pc |-> "none"]

\* no helper function is being applied
NoPure == [fn |-> "none"]

\* a client as the constructor leaves it
NewClient ==
    /\ op = [o \in Ops |-> Idle]
    /\ \E enabled \in BOOLEAN, threshold \in 1..MaxThreshold :
          cb = [enabled |-> enabled,
                failureThreshold |-> IF enabled THEN threshold ELSE 1,
                resetTimeoutMs |-> ResetTimeoutMs,
                state |-> "CLOSED", failures |-> 0, lastFailureTime |-> 0,
                onStateChange |-> <<>>]
    /\ retries \in 0..MaxRetries
    /\ onRequest \in BOOLEAN
    /\ onResponse = onRequest
    /\ now = 1
    /\ calls = 0
    /\ streak = 0

InitWith(cs) ==
    /\ NewClient
    /\ callers = cs
    /\ bulk = NoBulk
    /\ pure = NoPure

\* a caller that has no operation running invokes _request; options.signal may
\* be aborted already
StartRequest(o) ==
    /\ o \in callers
    /\ op[o].pc \in {"idle", "done"}
    /\ calls < MaxCalls
    /\ calls' = calls + 1
    /\ \E aborted \in BOOLEAN :
          Step(o, EnterRequest([Idle EXCEPT !.aborted = aborted], cb, now))
    /\ UNCHANGED <<retries, onRequest, onResponse, now, callers, bulk, pure>>

\* the backoff sleep ends
SleepResolves(o) ==
    /\ op[o].pc = "sleep"
    /\ Step(o, BeginAttempt(op[o], cb, now))
    /\ UNCHANGED <<retries, onRequest, onResponse, now, calls, callers, bulk, pure>>

\* the onRequest hook completes and fetch is called
OnRequestReturns(o) ==
    /\ op[o].pc = "onRequest"
    /\ Step(o, [op |-> CallFetch(op[o]), cb |-> cb])
    /\ UNCHANGED <<retries, onRequest, onResponse, now, calls, callers, bulk, pure>>

\* the onRequest hook throws
OnRequestThrows(o) ==
    /\ op[o].pc = "onRequest"
    /\ \E error \in {PlainError, TypeError} : Step(o, Catch(op[o], cb, now, error))
    /\ UNCHANGED <<retries, onRequest, onResponse, now, calls, callers, bulk, pure>>

\* fetch resolves with a response: clearTimeout, removeEventListener, and the
\* body is being read
FetchResolves(o) ==
    /\ op[o].pc = "fetch"
    /\ ~op[o].ctrlAborted
    /\ \E status \in Statuses :
          Step(o, [op |-> [op[o] EXCEPT !.pc = "body", !.status = status,
                                        !.timer = FALSE, !.listener = FALSE],
                   cb |-> cb])
    /\ UNCHANGED <<retries, onRequest, onResponse, now, calls, callers, bulk, pure>>

\* fetch rejects with a transport failure
FetchRejects(o) ==
    /\ op[o].pc = "fetch"
    /\ ~op[o].ctrlAborted
    /\ \E error \in {ConnReset, TypeError} : Step(o, Catch(op[o], cb, now, error))
    /\ UNCHANGED <<retries, onRequest, onResponse, now, calls, callers, bulk, pure>>

\* fetch rejects with AbortError: its signal is aborted
FetchAborts(o) ==
    /\ op[o].pc = "fetch"
    /\ op[o].ctrlAborted
    /\ Step(o, Catch(op[o], cb, now, AbortError))
    /\ UNCHANGED <<retries, onRequest, onResponse, now, calls, callers, bulk, pure>>

\* response.json() / response.text() resolves
BodyResolves(o) ==
    /\ op[o].pc = "body"
    /\ Step(o, HandleResponse(op[o], cb, now))
    /\ UNCHANGED <<retries, onRequest, onResponse, now, calls, callers, bulk, pure>>

\* the onResponse hook completes: _recordSuccess, return data
OnResponseReturns(o) ==
    /\ op[o].pc = "onResponse"
    /\ Step(o, [op |-> Settle(op[o], Success(op[o].status)), cb |-> RecordSuccess(cb)])
    /\ UNCHANGED <<retries, onRequest, onResponse, now, calls, callers, bulk, pure>>

\* the onResponse hook throws
OnResponseThrows(o) ==
    /\ op[o].pc = "onResponse"
    /\ \E error \in {PlainError, TypeError} : Step(o, Catch(op[o], cb, now, error))
    /\ UNCHANGED <<retries, onRequest, onResponse, now, calls, callers, bulk, pure>>

\* the caller aborts its signal; a registered listener aborts the controller
ExternalAbort(o) ==
    /\ op[o].pc \notin {"idle", "done"}
    /\ ~op[o].aborted
    /\ op' = [op EXCEPT ![o].aborted = TRUE,
                        ![o].ctrlAborted = @ \/ op[o].listener]
    /\ UNCHANGED <<cb, retries, onRequest, onResponse, now, calls, callers, streak, bulk, pure>>

\* the per-attempt timeout fires: controller.abort()
TimeoutFires(o) ==
    /\ op[o].timer
    /\ op[o].pc \in {"sleep", "onRequest", "fetch"}
    /\ op' = [op EXCEPT ![o].timer = FALSE, ![o].ctrlAborted = TRUE]
    /\ UNCHANGED <<cb, retries, onRequest, onResponse, now, calls, callers, streak, bulk, pure>>

\* time passes
Tick ==
    /\ now < MaxTime
    /\ cb.state = "OPEN"
    /\ now' = now + 1
    /\ UNCHANGED <<op, cb, retries, onRequest, onResponse, calls, callers, streak, bulk, pure>>

Next ==
    \/ \E o \in Ops :
          \/ StartRequest(o)
          \/ SleepResolves(o)
          \/ OnRequestReturns(o)
          \/ OnRequestThrows(o)
          \/ FetchResolves(o)
          \/ FetchRejects(o)
          \/ FetchAborts(o)
          \/ BodyResolves(o)
          \/ OnResponseReturns(o)
          \/ OnResponseThrows(o)
          \/ ExternalAbort(o)
          \/ TimeoutFires(o)
    \/ Tick

\* operations of several callers run concurrently on one client
Init == InitWith(Ops)

Spec == Init /\ [][Next]_vars

\* one caller issues its operations one after the other
InitSeq == InitWith({"a"})

SpecSeq == InitSeq /\ [][Next]_vars

\* several callers run operations concurrently on a client that is configured
\* with a breaker, without retries and without hooks
InitConc ==
    /\ InitWith(Ops)
    /\ cb.enabled
    /\ retries = 0
    /\ ~onRequest

NextConc ==
    \/ \E o \in Ops :
          \/ StartRequest(o)
          \/ FetchResolves(o)
          \/ FetchRejects(o)
          \/ FetchAborts(o)
          \/ BodyResolves(o)
          \/ ExternalAbort(o)
          \/ TimeoutFires(o)
    \/ Tick

SpecConc == InitConc /\ [][NextConc]_vars

\* ------------------------------------------------------------------ helpers

\* the items lists are made of
Items == {"p", "q"}

Min(a, b) == IF a < b THEN a ELSE b

\* the lists of at most n elements of S
SeqsUpTo(S, n) == UNION {[1..k -> S] : k \in 0..n}

\* the lists of seqs appended one after the other: target.push(...list)
RECURSIVE ConcatAll(_)
ConcatAll(seqs) ==
    IF seqs = <<>> THEN <<>> ELSE Head(seqs) \o ConcatAll(Tail(seqs))

\* items.slice(i, j) with the end taken one too far
SliceInclusive(items, i, j) == SubSeq(items, i + 1, Min(j + 1, Len(items)))

\* items.slice(i, j), indices from 0, j exclusive and clipped to the length
Slice(items, i, j) == SubSeq(items, i + 1, Min(j, Len(items)))

\* the loop of _batchBySize from index i on
RECURSIVE BatchFrom(_, _)
BatchFrom(items, i) ==
    IF i < Len(items)
    THEN <<Slice(items, i, i + BatchLimit)>> \o BatchFrom(items, i + BatchLimit)
    ELSE <<>>

\* _batchBySize(items)
BatchBySize(items) == BatchFrom(items, 0)

\* ---- per-batch responses of the bulk endpoints

\* a parsed response body: null, an object, or an array of objects
Null == [kind |-> "null"]
Object(fields) == [kind |-> "object", fields |-> fields]
Array(elems) == [kind |-> "array", elems |-> elems]

\* result[0] when result is an array, else result; undefined reads as null
Unwrap(result) ==
    IF result.kind = "array"
    THEN IF result.elems = <<>> THEN Null ELSE result.elems[1]
    ELSE result

\* r.f || dflt, for an object r that may lack the property
Prop(r, f, dflt) == IF f \in DOMAIN r.fields THEN r.fields[f] ELSE dflt

\* _mergeBulkResults with each list replaced, not appended to
RECURSIVE MergeBulkLastWins(_, _)
MergeBulkLastWins(merged, results) ==
    IF results = <<>> THEN merged
    ELSE LET r == Unwrap(Head(results))
         IN IF r = Null THEN MergeBulkLastWins(merged, Tail(results))
            ELSE MergeBulkLastWins(
                    [merged EXCEPT
                        !.numbers = @ + Prop(r, "numbers", 0),
                        !.count = @ + Prop(r, "count", 0),
                        !.phones = Prop(r, "phones", <<>>),
                        !.supression = Prop(r, "supression", <<>>),
                        !.wireless = Prop(r, "wireless", <<>>)],
                    Tail(results))

\* the loop of _mergeBulkResults over the results that are left
RECURSIVE MergeBulkInto(_, _)
MergeBulkInto(merged, results) ==
    IF results = <<>> THEN merged
    ELSE LET r == Unwrap(Head(results))
         IN IF r = Null THEN MergeBulkInto(merged, Tail(results))
            ELSE MergeBulkInto(
                    [merged EXCEPT
                        !.numbers = @ + Prop(r, "numbers", 0),
                        !.count = @ + Prop(r, "count", 0),
                        !.phones = @ \o Prop(r, "phones", <<>>),
                        !.supression = @ \o Prop(r, "supression", <<>>),
                        !.wireless = @ \o Prop(r, "wireless", <<>>)],
                    Tail(results))

\* _mergeBulkResults(results)
MergeBulkResults(results) ==
    MergeBulkInto([status |-> "success", numbers |-> 0, count |-> 0,
                   phones |-> <<>>, supression |-> <<>>, wireless |-> <<>>],
                  results)

\* the bulk results the model hands to the merge: BulkLookupResult objects
BulkObjects ==
    {Object([numbers |-> Len(ph), count |-> Len(su), phones |-> ph,
             supression |-> su, wireless |-> w]) :
        ph \in {<<"p">>, <<"q", "p">>}, su \in {<<>>, <<"p">>},
        w \in {<<>>, <<"q">>}}

\* ... as the API sends them: bare, wrapped in an array, without properties,
\* or empty
BulkResponses ==
    BulkObjects \cup {Array(<<r>>) : r \in BulkObjects}
        \cup {Null, Array(<<>>), [kind |-> "object", fields |-> <<>>]}

\* ---- email results

\* addresses that differ in case only, and one that differs
Emails == {"a@x.io", "A@x.io", "b@x.io"}

\* e.toLowerCase()
ToLowerCase(e) == IF e = "A@x.io" THEN "a@x.io" ELSE e

\* new Set(list.map(e => e.toLowerCase()))
LowerSet(list) == {ToLowerCase(list[i]) : i \in 1..Len(list)}

\* submittedEmails.filter(e => !goodSet.has(e.toLowerCase()))
FilterBad(submittedEmails, goodSet) ==
    SelectSeq(submittedEmails, LAMBDA e : ToLowerCase(e) \notin goodSet)

\* _computeBadEmails(result, submittedEmails)
ComputeBadEmails(result, submittedEmails) ==
    LET good == Prop(result, "good", <<>>)
    IN [good |-> good, bad |-> FilterBad(submittedEmails, LowerSet(good))]

\* the first loop of _mergeEmailResults keeping only the last batch
MergeGoodLastOnly(results) ==
    IF results = <<>> THEN <<>> ELSE Prop(results[Len(results)], "good", <<>>)

\* the first loop of _mergeEmailResults: merged.good
RECURSIVE MergeGood(_)
MergeGood(results) ==
    IF results = <<>> THEN <<>>
    ELSE Prop(Head(results), "good", <<>>) \o MergeGood(Tail(results))

\* _mergeEmailResults comparing the addresses as they are written
MergeEmailResultsCaseSensitive(results, submittedEmails) ==
    LET good == MergeGood(results)
    IN [good |-> good,
        bad |-> SelectSeq(submittedEmails,
                          LAMBDA e : e \notin {good[i] : i \in 1..Len(good)})]

\* _mergeEmailResults(results, submittedEmails)
MergeEmailResults(results, submittedEmails) ==
    LET good == MergeGood(results)
    IN [good |-> good, bad |-> FilterBad(submittedEmails, LowerSet(good))]

\* the per-batch email results of the API: {good: [...]}, or no good property
EmailResponses ==
    {Object([good |-> g]) : g \in SeqsUpTo(Emails, 2)}
        \cup {[kind |-> "object", fields |-> <<>>]}

\* per-batch email results that carry a bad list as well: {good: [...], bad: [...]}
EmailResponsesWithBad ==
    {Object([good |-> <<"a@x.io">>, bad |-> <<"b@x.io">>]),
     Object([good |-> <<>>, bad |-> <<"A@x.io">>])}

\* the backoff before a retry: 100 * Math.pow(2, attempt - 1) capped at 10000,
\* times 0.75 + Math.random() * 0.5
BaseDelayMs == 100
MaxDelayMs == 10000
JitterLowPerMille == 750
JitterSpanPerMille == 500

\* the delay without the cap
DelayUncapped(attempt) == BaseDelayMs * 2 ^ (attempt - 1)

\* const delay = Math.min(100 * Math.pow(2, attempt - 1), 10000)
Delay(attempt) == Min(BaseDelayMs * 2 ^ (attempt - 1), MaxDelayMs)

\* const jitter = delay * (0.75 + Math.random() * 0.5), for Math.random() =
\* k / RandomSteps, as the fraction num / den of milliseconds
Jitter(delay, k) ==
    [num |-> delay * (JitterLowPerMille * RandomSteps + JitterSpanPerMille * k),
     den |-> 1000 * RandomSteps]

\* the top of the try block of iteration attempt: what this._sleep is called
\* with, if it is called
Backoff(attempt, k) ==
    IF attempt > 0
    THEN [slept |-> TRUE, delay |-> Delay(attempt), jitter |-> Jitter(Delay(attempt), k)]
    ELSE [slept |-> FALSE, delay |-> 0, jitter |-> [num |-> 0, den |-> 1]]

\* ------------------------------------------------------- helpers, applied

\* the client is not used while a helper is applied
QuietClient ==
    /\ NewClient
    /\ ~cb.enabled
    /\ retries = 0
    /\ ~onRequest
    /\ callers = {}
    /\ bulk = NoBulk

\* the calls of _batchBySize
BatchCalls ==
    {[fn |-> "_batchBySize", items |-> items, returned |-> FALSE, out |-> <<>>] :
        items \in SeqsUpTo(Items, MaxItems)}

ApplyBatchBySize ==
    /\ pure.fn = "_batchBySize"
    /\ ~pure.returned
    /\ pure' = [pure EXCEPT !.returned = TRUE, !.out = BatchBySize(pure.items)]
    /\ UNCHANGED <<op, cb, retries, onRequest, onResponse, now, calls, callers,
                   streak, bulk>>

\* the calls of _mergeBulkResults
MergeBulkCalls ==
    {[fn |-> "_mergeBulkResults", results |-> results, returned |-> FALSE,
      out |-> <<>>] :
        results \in SeqsUpTo(BulkResponses, MaxResults)}

ApplyMergeBulkResults ==
    /\ pure.fn = "_mergeBulkResults"
    /\ ~pure.returned
    /\ pure' = [pure EXCEPT !.returned = TRUE,
                            !.out = MergeBulkResults(pure.results)]
    /\ UNCHANGED <<op, cb, retries, onRequest, onResponse, now, calls, callers,
                   streak, bulk>>

\* the calls of _mergeEmailResults
MergeEmailCalls ==
    {[fn |-> "_mergeEmailResults", results |-> results, submitted |-> submitted,
      returned |-> FALSE, out |-> <<>>] :
        results \in SeqsUpTo(EmailResponses, MaxResults)
                        \cup SeqsUpTo(EmailResponsesWithBad, MaxResults),
        submitted \in SeqsUpTo(Emails, MaxEmails)}

ApplyMergeEmailResults ==
    /\ pure.fn = "_mergeEmailResults"
    /\ ~pure.returned
    /\ pure' = [pure EXCEPT !.returned = TRUE,
                            !.out = MergeEmailResults(pure.results, pure.submitted)]
    /\ UNCHANGED <<op, cb, retries, onRequest, onResponse, now, calls, callers,
                   streak, bulk>>

\* the calls of _computeBadEmails
ComputeBadCalls ==
    {[fn |-> "_computeBadEmails", results |-> <<result>>, submitted |-> submitted,
      returned |-> FALSE, out |-> <<>>] :
        result \in EmailResponses, submitted \in SeqsUpTo(Emails, MaxEmails)}

ApplyComputeBadEmails ==
    /\ pure.fn = "_computeBadEmails"
    /\ ~pure.returned
    /\ pure' = [pure EXCEPT !.returned = TRUE,
                            !.out = ComputeBadEmails(pure.results[1], pure.submitted)]
    /\ UNCHANGED <<op, cb, retries, onRequest, onResponse, now, calls, callers,
                   streak, bulk>>

\* the loop iterations whose backoff is computed, with the values Math.random()
\* takes
BackoffCalls ==
    {[fn |-> "backoff", attempt |-> a, random |-> k, returned |-> FALSE,
      out |-> <<>>] :
        a \in 0..MaxAttempt, k \in 0..(RandomSteps - 1)}

ApplyBackoff ==
    /\ pure.fn = "backoff"
    /\ ~pure.returned
    /\ pure' = [pure EXCEPT !.returned = TRUE,
                            !.out = Backoff(pure.attempt, pure.random)]
    /\ UNCHANGED <<op, cb, retries, onRequest, onResponse, now, calls, callers,
                   streak, bulk>>

InitPure ==
    /\ QuietClient
    /\ pure \in BatchCalls \cup MergeBulkCalls \cup MergeEmailCalls
                    \cup ComputeBadCalls \cup BackoffCalls

NextPure ==
    \/ ApplyBatchBySize
    \/ ApplyMergeBulkResults
    \/ ApplyMergeEmailResults
    \/ ApplyComputeBadEmails
    \/ ApplyBackoff

SpecPure == InitPure /\ [][NextPure]_vars

\* ------------------------------------------------------- public methods

\* the caller whose public method call is followed
Caller == "a"

\* new ValidationError(message, statusCode, null)
ValidationError(statusCode) ==
    Err("ValidationError", "ValidationError", "", statusCode, "validation")

\* the lists the methods are called with: phones are named by their position,
\* emails run through Emails
EmailAt(i) ==
    IF i % 3 = 1 THEN "a@x.io" ELSE IF i % 3 = 2 THEN "b@x.io" ELSE "A@x.io"

ListOf(method, n) ==
    [i \in 1..n |-> IF method = "emailBulk" THEN EmailAt(i) ELSE i]

\* the first argument of a bulk method: an array of 0..MaxItems items, or
\* something that is no array
Inputs(method) ==
    {[isArray |-> TRUE, items |-> ListOf(method, n)] : n \in 0..MaxItems}
        \cup {[isArray |-> FALSE, items |-> <<>>]}

\* the first argument of lookupSingle: a phone of ten digits, and one of three
PhoneInputs ==
    {[isArray |-> FALSE, items |-> <<ph>>] : ph \in {"2223334444", "123"}}

\* String(phone).replace(/\D/g, "") has fewer than 10 or more than 11 digits
Malformed(phone) == phone = "123"

\* the calls of the bulk methods and of lookupSingle, with their options
CallArgs ==
    UNION {
        {[method |-> m, input |-> in, autoBatch |-> ab, responseFormat |-> rf,
          onProgress |-> pr, validate |-> va, aborted |-> sa] :
            in \in IF m = "lookupSingle" THEN PhoneInputs ELSE Inputs(m),
            ab \in IF m = "lookupSingle" THEN {TRUE} ELSE BOOLEAN,
            rf \in IF m = "bulkLookupSimple" THEN {"json", "phonecode"} ELSE {"json"},
            pr \in IF m = "lookupSingle" THEN {FALSE} ELSE BOOLEAN,
            va \in IF m = "lookupSingle" THEN BOOLEAN ELSE {TRUE},
            sa \in BOOLEAN} :
        m \in {"bulkLookupSimple", "bulkLookup", "emailBulk", "lookupSingle"}}

\* the argument check with the phone of lookupSingle let through as it is
ValidArgsNoPhoneCheck(args) ==
    IF args.method = "lookupSingle"
    THEN TRUE
    ELSE args.input.isArray /\ Len(args.input.items) > 0

\* the argument passes the check at the top of the method: a non-empty array
\* for a bulk method, a well-formed phone for lookupSingle unless validate is
\* false
ValidArgs(args) ==
    IF args.method = "lookupSingle"
    THEN args.validate => ~Malformed(args.input.items[1])
    ELSE args.input.isArray /\ Len(args.input.items) > 0

\* the error the check throws
ArgsError(args) ==
    IF args.method = "lookupSingle" THEN ValidationError(422) ELSE ValidationError(400)

\* the batches with the autoBatch option and the response format ignored
BatchesOfAlwaysSplit(args) ==
    IF args.method # "lookupSingle"
    THEN BatchBySize(args.input.items)
    ELSE <<args.input.items>>

\* const batches = autoBatch ? this._batchBySize(items) : [items]
BatchesOf(args) ==
    LET canBatch == args.responseFormat = "json"
        autoBatch == canBatch /\ args.autoBatch
    IN IF args.method # "lookupSingle" /\ autoBatch
       THEN BatchBySize(args.input.items)
       ELSE <<args.input.items>>

\* a response body in a format that is not JSON
Text == [kind |-> "text"]

\* the bodies the upstream answers a request of the method with
Replies(args) ==
    IF args.method = "emailBulk"
    THEN {Object([good |-> <<"a@x.io">>]), Object([good |-> <<>>])}
    ELSE IF args.responseFormat # "json" THEN {Text}
    ELSE IF args.method = "lookupSingle" THEN {Object([phone |-> "2223334444"])}
    ELSE {Object([numbers |-> 1, count |-> 0, phones |-> <<"p">>,
                  supression |-> <<>>, wireless |-> <<>>]),
          Array(<<Object([numbers |-> 2, count |-> 1, phones |-> <<"q", "p">>,
                          supression |-> <<"p">>, wireless |-> <<"q">>])>>)}

\* the locals of a method whose arguments passed the check
NewCall(args) ==
    [pc |-> "request", args |-> args, batches |-> BatchesOf(args), i |-> 0,
     requests |-> <<>>, results |-> <<>>, completed |-> 0, progress |-> <<>>,
     outcome |-> NoOutcome, value |-> Null]

\* the method throws error
Throw(b, error) == [b EXCEPT !.pc = "done", !.outcome = error]

\* what the method returns once every batch has its result
ReturnValue(b) ==
    LET items == b.args.input.items
    IN IF Len(b.batches) = 1
       THEN IF b.args.method = "emailBulk"
            THEN ComputeBadEmails(b.results[1], items)
            ELSE b.results[1]
       ELSE IF b.args.method = "emailBulk"
            THEN MergeEmailResults(b.results, items)
            ELSE MergeBulkResults(b.results)

\* the loop with the next batch taken two further on
AfterResultSkipping(b, data) ==
    LET k == Len(b.batches)
        j == b.i + 1
        completed == IF k = 1 THEN Len(b.args.input.items)
                     ELSE b.completed + Len(b.batches[j])
        info == [completed |-> completed, total |-> Len(b.args.input.items),
                 batch |-> j, totalBatches |-> k]
        b1 == [b EXCEPT !.results = Append(@, data),
                        !.completed = completed,
                        !.progress = IF b.args.onProgress THEN Append(@, info) ELSE @]
    IN IF j + 1 < k
       THEN [b1 EXCEPT !.i = j + 1, !.requests = Append(@, b.batches[j + 2])]
       ELSE [b1 EXCEPT !.pc = "done", !.outcome = Success(200),
                       !.value = ReturnValue(b1)]

\* the loop with completed counting the batches, not their items
AfterResultCountsBatches(b, data) ==
    LET k == Len(b.batches)
        j == b.i + 1
        completed == b.completed + 1
        info == [completed |-> completed, total |-> Len(b.args.input.items),
                 batch |-> j, totalBatches |-> k]
        b1 == [b EXCEPT !.results = Append(@, data),
                        !.completed = completed,
                        !.progress = IF b.args.onProgress THEN Append(@, info) ELSE @]
    IN IF j < k
       THEN [b1 EXCEPT !.i = j, !.requests = Append(@, b.batches[j + 1])]
       ELSE [b1 EXCEPT !.pc = "done", !.outcome = Success(200),
                       !.value = ReturnValue(b1)]

\* await this._request(...) returned data for batch i: it is kept, completed
\* grows, onProgress is called, and the next batch is taken or the method
\* returns
AfterResult(b, data) ==
    LET k == Len(b.batches)
        j == b.i + 1
        completed == IF k = 1 THEN Len(b.args.input.items)
                     ELSE b.completed + Len(b.batches[j])
        info == [completed |-> completed, total |-> Len(b.args.input.items),
                 batch |-> j, totalBatches |-> k]
        b1 == [b EXCEPT !.results = Append(@, data),
                        !.completed = completed,
                        !.progress = IF b.args.onProgress THEN Append(@, info) ELSE @]
    IN IF j < k
       THEN [b1 EXCEPT !.i = j, !.requests = Append(@, b.batches[j + 1])]
       ELSE [b1 EXCEPT !.pc = "done", !.outcome = Success(200),
                       !.value = ReturnValue(b1)]

\* the error of a batch is dropped and what was collected is returned
AfterErrorReturnsPartial(b, error) ==
    [b EXCEPT !.pc = "done", !.outcome = Success(200),
              !.value = MergeBulkResults(b.results)]

\* await this._request(...) threw: the error leaves the method as it is
AfterError(b, error) == Throw(b, error)

\* a public method is called: the argument check, the batches, and the first
\* this._request(...) up to its first await
CallMethod ==
    /\ bulk.pc = "none"
    /\ \E args \in CallArgs :
          IF ValidArgs(args)
          THEN /\ bulk' = [NewCall(args) EXCEPT !.requests = <<BatchesOf(args)[1]>>]
               /\ Step(Caller, EnterRequest([Idle EXCEPT !.aborted = args.aborted],
                                            cb, now))
               /\ calls' = calls + 1
          ELSE /\ bulk' = Throw([NewCall(args) EXCEPT !.batches = <<>>], ArgsError(args))
               /\ UNCHANGED <<op, cb, streak, calls>>
    /\ UNCHANGED <<retries, onRequest, onResponse, now, callers, pure>>

\* this._request(...) of the current batch has settled and the method goes on:
\* with the error it rethrows, with the data it either calls this._request for
\* the next batch, on the same signal, or returns
MethodResumes ==
    /\ bulk.pc = "request"
    /\ op[Caller].pc = "done"
    /\ IF op[Caller].outcome.cls # "ok"
       THEN /\ bulk' = AfterError(bulk, op[Caller].outcome)
            /\ UNCHANGED <<op, cb, streak, calls>>
       ELSE \E data \in Replies(bulk.args) :
               /\ bulk' = AfterResult(bulk, data)
               /\ IF bulk'.pc = "request"
                  THEN /\ Step(Caller,
                               EnterRequest([Idle EXCEPT !.aborted = op[Caller].aborted],
                                            cb, now))
                       /\ calls' = calls + 1
                  ELSE UNCHANGED <<op, cb, streak, calls>>
    /\ UNCHANGED <<retries, onRequest, onResponse, now, callers, pure>>

InitBulk ==
    /\ NewClient
    /\ callers = {Caller}
    /\ bulk = NoBulk
    /\ pure = NoPure

NextBulk ==
    \/ CallMethod
    \/ MethodResumes
    \/ \E o \in Ops :
          \/ SleepResolves(o)
          \/ OnRequestReturns(o)
          \/ OnRequestThrows(o)
          \/ FetchResolves(o)
          \/ FetchRejects(o)
          \/ FetchAborts(o)
          \/ BodyResolves(o)
          \/ OnResponseReturns(o)
          \/ OnResponseThrows(o)
          \/ ExternalAbort(o)
          \/ TimeoutFires(o)
    \/ Tick

\* one caller calls one public method
SpecBulk == InitBulk /\ [][NextBulk]_vars

\* a pending await of caller o settles: the backoff wait, the onRequest hook,
\* fetch, the reading of the body, the onResponse hook
AwaitSettles(o) ==
    \/ SleepResolves(o)
    \/ OnRequestReturns(o)
    \/ OnRequestThrows(o)
    \/ FetchResolves(o)
    \/ FetchRejects(o)
    \/ FetchAborts(o)
    \/ BodyResolves(o)
    \/ OnResponseReturns(o)
    \/ OnResponseThrows(o)

\* bulkLookupSimple(phones, { signal }): autoBatch and responseFormat at their
\* defaults, no onProgress
CallBulkLookupSimple ==
    /\ CallMethod
    /\ bulk'.args.method = "bulkLookupSimple"
    /\ bulk'.args.autoBatch
    /\ bulk'.args.responseFormat = "json"
    /\ ~bulk'.args.onProgress

NextBulkFair ==
    \/ CallBulkLookupSimple
    \/ MethodResumes
    \/ \E o \in Ops : AwaitSettles(o) \/ ExternalAbort(o) \/ TimeoutFires(o)
    \/ Tick

\* one caller calls bulkLookupSimple, and no await stays pending for ever
SpecBulkFair ==
    /\ InitBulk
    /\ [][NextBulkFair]_vars
    /\ WF_vars(MethodResumes)
    /\ WF_vars(AwaitSettles(Caller))

\* ------------------------------------------------------------- properties

\* the invocation is suspended at an await
Running(r) == r.pc \notin {"idle", "done"}

\* the invocation ended without any call of fetch or of the onRequest hook
NoNetwork(r) == r.pc = "done" /\ r.fetchCalls = 0 /\ r.onRequestCalls = 0

\* the breaker is OPEN and its cooldown has not elapsed
WithinCooldown ==
    /\ cb.enabled
    /\ cb.state = "OPEN"
    /\ now - cb.lastFailureTime < cb.resetTimeoutMs

\* statuses of Statuses that _isRetryable rejects
ClientErrors == {s \in Statuses : s >= 400 /\ s < 500 /\ s \notin {408, 429}}

\* C1: with retries = r, an operation whose attempts all fail with a retryable
\* condition calls fetch exactly r + 1 times (never more) and throws the failed
\* class of the last attempt, the HTTP status of the last response preserved.
C1_RetryExhaustion ==
    \A o \in Ops :
        /\ op[o].fetchCalls <= retries + 1
        /\ ( /\ op[o].pc = "done"
             /\ IsFailure(op[o].outcome)
             /\ IsRetryable(op[o].outcome)
             /\ op[o].fetchCalls = op[o].attempt + 1 )
           => /\ op[o].fetchCalls = retries + 1
              /\ op[o].outcome.statusCode # 0
                    => /\ op[o].outcome.statusCode = op[o].status
                       /\ op[o].outcome = FromResponse(op[o].status)

C1_Witness ==
    /\ retries = MaxRetries
    /\ retries > 0
    /\ \E o \in Ops :
          /\ op[o].pc = "done"
          /\ op[o].outcome = FromResponse(502)
          /\ op[o].fetchCalls = retries + 1

\* C2: a response with a non-retryable 4xx status ends the operation at once
\* with the error of that status: no retry, no further call of fetch, and one
\* call in all when it was the first attempt.
C2_NoRetryOnClientError ==
    [][\A o \in Ops :
          ( /\ op[o].pc = "body"
            /\ op[o].status \in ClientErrors
            /\ op'[o].pc # "body" )
          => /\ op'[o].pc = "done"
             /\ op'[o].outcome = FromResponse(op[o].status)
             /\ op'[o].fetchCalls = op[o].fetchCalls
             /\ op[o].attempt = 0 => op'[o].fetchCalls = 1]_vars

C2_Witness ==
    /\ retries > 0
    /\ \E o \in Ops :
          /\ op[o].pc = "done"
          /\ op[o].outcome = FromResponse(403)
          /\ op[o].attempt = 0
          /\ op[o].fetchCalls = 1

\* C3: from CLOSED with no failures, the operation whose terminal failure is
\* the failureThreshold-th in a row leaves the breaker OPEN, and an operation
\* started while it is OPEN within the cooldown throws CircuitBreakerError
\* with no call of fetch.
C3_OpensAtThreshold ==
    [][cb.enabled =>
          /\ (streak' # streak /\ streak' >= cb.failureThreshold)
                => cb'.state = "OPEN"
          /\ (calls' = calls + 1 /\ WithinCooldown)
                => /\ cb' = cb
                   /\ \A o \in Ops :
                         op'[o] # op[o]
                            => /\ NoNetwork(op'[o])
                               /\ op'[o].outcome = CircuitBreakerError]_vars

C3_Witness ==
    /\ cb.enabled
    /\ cb.failureThreshold = MaxThreshold
    /\ cb.state = "OPEN"
    /\ cb.onStateChange = <<"OPEN">>
    /\ streak = cb.failureThreshold
    /\ \E o \in Ops :
          /\ NoNetwork(op[o])
          /\ op[o].outcome = CircuitBreakerError

\* C4 (as the specification states it): the breaker is consulted before every
\* attempt, so no call of fetch starts while the breaker is OPEN within its
\* cooldown.
C4_NoFetchWhileOpen ==
    [][\A o \in Ops :
          (op'[o].pc = "fetch" /\ op[o].pc # "fetch") => ~WithinCooldown]_vars

\* C5 (as the specification states it): HALF_OPEN admits one probe; an
\* operation that arrives while the breaker is HALF_OPEN and the probe is
\* still running does not reach the network.
C5_SingleProbe ==
    [][( /\ cb.enabled
         /\ cb.state = "HALF_OPEN"
         /\ calls' = calls + 1
         /\ \E p \in Ops : Running(op[p]) )
       => \A o \in Ops : op'[o] # op[o] => NoNetwork(op'[o])]_vars

\* C6: an operation that arrives while the breaker is OPEN is rejected, the
\* breaker unchanged, as long as now - lastFailureTime < resetTimeoutMs; the
\* first one that arrives at or after resetTimeoutMs moves the breaker to
\* HALF_OPEN and is not rejected.
C6_CooldownThenHalfOpen ==
    [][(cb.enabled /\ cb.state = "OPEN" /\ calls' = calls + 1)
       => IF now - cb.lastFailureTime < cb.resetTimeoutMs
          THEN /\ cb' = cb
               /\ \E o \in Ops :
                     /\ op'[o].outcome = CircuitBreakerError
                     /\ NoNetwork(op'[o])
                     /\ \A p \in Ops \ {o} : op'[p] = op[p]
          ELSE /\ cb' = ChangeCircuitState(cb, "HALF_OPEN")
               /\ \A o \in Ops :
                     op'[o] # op[o]
                        => \/ op'[o].pc \in {"onRequest", "fetch"}
                           \/ /\ op'[o].aborted
                              /\ op'[o].outcome = TimeoutError("Request aborted")]_vars

C6_Witness ==
    /\ cb.state = "HALF_OPEN"
    /\ cb.onStateChange = <<"OPEN", "HALF_OPEN">>
    /\ now - cb.lastFailureTime = cb.resetTimeoutMs
    /\ \E o \in Ops : op[o].pc = "fetch" /\ op[o].attempt = 0

\* C7: a success reported while the breaker is HALF_OPEN sets failures to 0
\* and the state to CLOSED, and an operation started while CLOSED is never
\* rejected by the breaker.
C7_ProbeSuccessCloses ==
    [][cb.enabled =>
          /\ ( /\ cb.state = "HALF_OPEN"
               /\ \E o \in Ops :
                     /\ Running(op[o])
                     /\ op'[o].pc = "done"
                     /\ op'[o].outcome.cls = "ok" )
             => cb'.state = "CLOSED" /\ cb'.failures = 0
          /\ (cb.state = "CLOSED" /\ calls' = calls + 1)
             => /\ cb'.state = "CLOSED"
                /\ \A o \in Ops :
                      op'[o] # op[o] => op'[o].outcome # CircuitBreakerError]_vars

C7_Witness ==
    /\ cb.state = "CLOSED"
    /\ cb.failures = 0
    /\ cb.onStateChange = <<"OPEN", "HALF_OPEN", "CLOSED">>
    /\ \E o \in Ops : op[o].pc = "fetch"

\* C8: a failure reported while the breaker is HALF_OPEN sets the state to
\* OPEN and lastFailureTime to the current time, whatever failures is.
C8_ProbeFailureReopens ==
    [][( /\ cb.enabled
         /\ cb.state = "HALF_OPEN"
         /\ \E o \in Ops :
               /\ Running(op[o])
               /\ op'[o].pc = "done"
               /\ IsFailure(op'[o].outcome) )
       => /\ cb'.state = "OPEN"
          /\ cb'.lastFailureTime = now
          /\ cb'.failures = cb.failures + 1]_vars

C8_Witness ==
    /\ cb.state = "OPEN"
    /\ cb.onStateChange = <<"OPEN", "HALF_OPEN", "OPEN">>
    /\ cb.lastFailureTime = now
    /\ cb.lastFailureTime > 1

\* C9 (as the specification states it): an operation started with its signal
\* already aborted throws the cancellation error with no call of fetch, no
\* call of the onRequest hook and the breaker unchanged.
C9_PreAbortedLeavesBreaker ==
    [][\A o \in Ops :
          (calls' = calls + 1 /\ op'[o] # op[o] /\ op'[o].aborted)
          => /\ NoNetwork(op'[o])
             /\ op'[o].outcome = TimeoutError("Request aborted")
             /\ cb' = cb]_vars

\* C10: when the signal is aborted while fetch is in flight, the call is
\* aborted and the operation ends at once with TimeoutError "Request aborted",
\* without another call of fetch; an ended operation does nothing more.
C10_AbortInFlight ==
    [][\A o \in Ops :
          /\ (op[o].pc = "fetch" /\ op[o].aborted)
                => /\ op[o].ctrlAborted
                   /\ op'[o].pc # "fetch"
                         => /\ op'[o].pc = "done"
                            /\ op'[o].outcome = TimeoutError("Request aborted")
                            /\ op'[o].fetchCalls = op[o].fetchCalls
          /\ (op[o].pc = "done" /\ op'[o] # op[o]) => calls' = calls + 1]_vars

C10_Witness ==
    /\ retries > 0
    /\ \E o \in Ops :
          /\ op[o].pc = "done"
          /\ op[o].aborted
          /\ op[o].outcome = TimeoutError("Request aborted")
          /\ op[o].attempt = 0
          /\ op[o].fetchCalls = 1
          /\ ~onRequest

\* C11 (as the specification states it): a running operation that ends with
\* the cancellation error, whether the signal was aborted during a backoff
\* sleep, a hook or fetch, leaves the breaker's failures, lastFailureTime and
\* state unchanged (the signal aborted before the operation starts is C9).
C11_CancellationNotReported ==
    [][\A o \in Ops :
          ( /\ Running(op[o])
            /\ op'[o].pc = "done"
            /\ op'[o].outcome = TimeoutError("Request aborted") )
          => /\ cb'.failures = cb.failures
             /\ cb'.lastFailureTime = cb.lastFailureTime
             /\ cb'.state = cb.state]_vars

\* C12 (as the specification states it): an operation whose signal is aborted
\* while it is in the backoff sleep before a retry throws the cancellation
\* error when the sleep ends: it starts no further iteration and no further
\* backoff sleep.
C12_NoRetryAfterAbortInBackoff ==
    [][\A o \in Ops :
          (op[o].pc = "sleep" /\ op[o].aborted)
          => /\ op'[o].attempt = op[o].attempt
             /\ op'[o].pc \in {"sleep", "done"}
             /\ op'[o].pc = "done"
                   => op'[o].outcome = TimeoutError("Request aborted")]_vars

\* C13: for a list of N >= 1 items _batchBySize returns ceil(N / BatchLimit)
\* batches that, appended in order, are the list itself; every batch but the
\* last has BatchLimit items, and the last has N mod BatchLimit items, or
\* BatchLimit when N is a multiple of it.
C13_BatchPartition ==
    (pure.fn = "_batchBySize" /\ pure.returned /\ Len(pure.items) >= 1)
    => LET n == Len(pure.items)
           k == Len(pure.out)
       IN /\ k = (n + BatchLimit - 1) \div BatchLimit
          /\ ConcatAll(pure.out) = pure.items
          /\ \A j \in 1..(k - 1) : Len(pure.out[j]) = BatchLimit
          /\ Len(pure.out[k]) =
                IF n % BatchLimit = 0 THEN BatchLimit ELSE n % BatchLimit

C13_Witness ==
    /\ pure.fn = "_batchBySize"
    /\ pure.returned
    /\ Len(pure.items) = MaxItems
    /\ Len(pure.out) >= 2
    /\ Len(pure.out[Len(pure.out)]) < BatchLimit
    /\ \E i, j \in 1..Len(pure.items) : pure.items[i] # pure.items[j]

\* the sum of f over the per-batch results, and the lists f of the per-batch
\* results one after the other
RECURSIVE SumOf(_, _)
SumOf(results, f) ==
    IF results = <<>> THEN 0
    ELSE Prop(Unwrap(Head(results)), f, 0) + SumOf(Tail(results), f)

ListsOf(results, f) ==
    [j \in 1..Len(results) |-> Prop(Unwrap(results[j]), f, <<>>)]

RECURSIVE SumLen(_)
SumLen(seqs) == IF seqs = <<>> THEN 0 ELSE Len(Head(seqs)) + SumLen(Tail(seqs))

\* C14: _mergeBulkResults returns numbers and count equal to the sums of the
\* per-batch counters, and phones, supression and wireless equal to the
\* per-batch lists appended in batch order, their lengths the sums of the
\* per-batch lengths.
C14_MergeAdditive ==
    (pure.fn = "_mergeBulkResults" /\ pure.returned)
    => LET rs == SelectSeq(pure.results, LAMBDA r : Unwrap(r) # Null)
       IN /\ pure.out.numbers = SumOf(rs, "numbers")
          /\ pure.out.count = SumOf(rs, "count")
          /\ \A f \in {"phones", "supression", "wireless"} :
                /\ pure.out[f] = ConcatAll(ListsOf(rs, f))
                /\ Len(pure.out[f]) = SumLen(ListsOf(rs, f))

C14_Witness ==
    /\ pure.fn = "_mergeBulkResults"
    /\ pure.returned
    /\ Len(pure.results) = MaxResults
    /\ pure.results[1].kind = "array"
    /\ pure.results[2].kind = "object"
    /\ pure.out.numbers = 3
    /\ pure.out.phones = <<"q", "p", "p">>
    /\ pure.out.supression = <<"p">>
    /\ pure.out.wireless = <<"q", "q">>

\* C15: the merged email result has good = the per-batch good lists appended
\* in batch order, duplicates kept, and bad = the submitted addresses, in
\* submission order, whose lower-cased form is the lower-cased form of no good
\* address; no address is, case aside, in both good and bad.
C15_EmailBadIsSubmittedMinusGood ==
    (pure.fn \in {"_mergeEmailResults", "_computeBadEmails"} /\ pure.returned)
    => LET goods == [j \in 1..Len(pure.results) |->
                        Prop(pure.results[j], "good", <<>>)]
           G == UNION {{goods[j][i] : i \in 1..Len(goods[j])} : j \in 1..Len(goods)}
           S == pure.submitted
           isBad(e) == \A g \in G : ToLowerCase(e) # ToLowerCase(g)
       IN /\ pure.out.good = ConcatAll(goods)
          /\ pure.out.bad = SelectSeq(S, isBad)
          /\ \A i \in 1..Len(pure.out.good), j \in 1..Len(pure.out.bad) :
                ToLowerCase(pure.out.good[i]) # ToLowerCase(pure.out.bad[j])

C15_Witness ==
    /\ pure.fn = "_mergeEmailResults"
    /\ pure.returned
    /\ Len(pure.results) = MaxResults
    /\ pure.submitted = <<"b@x.io", "A@x.io", "b@x.io">>
    /\ pure.out.good = <<"a@x.io", "a@x.io">>
    /\ pure.out.bad = <<"b@x.io", "b@x.io">>

\* the bulk methods
BulkMethods == {"bulkLookupSimple", "bulkLookup", "emailBulk"}

\* a bulk method is being followed
InBulk == bulk.pc # "none" /\ bulk.args.method \in BulkMethods

\* C16: within one bulk operation the batches are requested in input order and
\* one at a time: what has been requested is always a prefix of the batches,
\* and the request of a further batch starts only in a step where the
\* invocation of the batch before it has ended, with a result
C16_BatchesInOrder ==
    /\ [](InBulk => bulk.requests = SubSeq(bulk.batches, 1, Len(bulk.requests)))
    /\ [][(InBulk /\ Len(bulk'.requests) > Len(bulk.requests)) =>
             /\ Len(bulk'.requests) = Len(bulk.requests) + 1
             /\ bulk.pc = "request"
             /\ op[Caller].pc = "done"
             /\ op[Caller].outcome.cls = "ok"
             /\ Len(bulk'.results) = Len(bulk.requests)]_vars

\* the third batch of an operation is on the network after the first two
\* have been answered
C16_Witness ==
    /\ InBulk
    /\ Len(bulk.batches) = 3
    /\ Len(bulk.requests) = 3
    /\ Len(bulk.results) = 2
    /\ op[Caller].pc = "fetch"

\* what onProgress is called with after batch j of the operation
ProgressAt(b, j) ==
    [completed |-> SumLen(SubSeq(b.batches, 1, j)),
     total |-> Len(b.args.input.items),
     batch |-> j,
     totalBatches |-> Len(b.batches)]

\* C17: with a progress callback, the callback has been called once for each
\* batch that was answered and for no other, its j-th call comes before the
\* request of batch j+1 and carries batch = j, totalBatches = k, total = N
\* and completed = the sizes of batches 1..j added up; an operation whose k
\* batches all succeeded has called it k times, the last time with
\* completed = N.
C17_ProgressPerBatch ==
    (InBulk /\ bulk.args.onProgress) =>
        /\ Len(bulk.progress) = Len(bulk.results)
        /\ Len(bulk.requests) <= Len(bulk.progress) + 1
        /\ \A j \in 1..Len(bulk.progress) : bulk.progress[j] = ProgressAt(bulk, j)
        /\ \A j \in 2..Len(bulk.progress) :
              bulk.progress[j].completed > bulk.progress[j - 1].completed
        /\ (bulk.pc = "done" /\ bulk.outcome.cls = "ok") =>
              /\ Len(bulk.progress) = Len(bulk.batches)
              /\ bulk.progress[Len(bulk.progress)].completed = Len(bulk.args.input.items)

\* five items in batches of two have been answered: the callback was called
\* with (2,1,3), (4,2,3) and (5,3,3)
C17_Witness ==
    /\ InBulk
    /\ bulk.pc = "done"
    /\ bulk.outcome.cls = "ok"
    /\ bulk.progress = <<[completed |-> 2, total |-> 5, batch |-> 1, totalBatches |-> 3],
                         [completed |-> 4, total |-> 5, batch |-> 2, totalBatches |-> 3],
                         [completed |-> 5, total |-> 5, batch |-> 3, totalBatches |-> 3]>>

\* C18: when the invocation for batch j of a bulk operation ends in an error,
\* the operation ends with that same error, batch j was the last one
\* requested, only the j-1 batches before it have a result and a progress
\* call, the next step of the operation ends it with nothing returned, and
\* the operation does nothing more.
C18_BatchFailureEndsOperation ==
    /\ []((InBulk /\ bulk.pc = "request" /\ op[Caller].pc = "done"
                  /\ op[Caller].outcome.cls # "ok") =>
             /\ Len(bulk.results) = Len(bulk.requests) - 1
             /\ Len(bulk.progress) <= Len(bulk.requests) - 1)
    /\ [][(InBulk /\ bulk.pc = "request" /\ op[Caller].pc = "done"
                  /\ op[Caller].outcome.cls # "ok" /\ bulk' # bulk) =>
             /\ bulk'.pc = "done"
             /\ bulk'.outcome = op[Caller].outcome
             /\ bulk'.value = Null
             /\ bulk'.requests = bulk.requests
             /\ bulk'.results = bulk.results
             /\ bulk'.progress = bulk.progress
             /\ calls' = calls /\ op' = op /\ cb' = cb]_vars
    /\ [][(InBulk /\ bulk.pc = "done") => (bulk' = bulk /\ op' = op)]_vars

\* the second of three batches failed after the first was answered and
\* reported to the progress callback
C18_Witness ==
    /\ InBulk
    /\ bulk.pc = "done"
    /\ IsFailure(bulk.outcome)
    /\ bulk.value = Null
    /\ Len(bulk.batches) = 3
    /\ Len(bulk.requests) = 2
    /\ Len(bulk.progress) = 1

\* a bulk method was called with something that is no list or with an empty
\* list, or lookupSingle with a malformed phone
BadInput(args) ==
    IF args.method = "lookupSingle"
    THEN Malformed(args.input.items[1])
    ELSE ~args.input.isArray \/ Len(args.input.items) = 0

\* the call ended with a validation error and no I/O: _request was never
\* entered, so no fetch, no hook, no breaker check, and the breaker is as
\* the constructor left it
RejectedBeforeIO ==
    /\ bulk.pc = "done"
    /\ bulk.outcome.cls = "ValidationError"
    /\ bulk.value = Null
    /\ bulk.requests = <<>>
    /\ calls = 0
    /\ op[Caller] = Idle
    /\ cb.state = "CLOSED" /\ cb.failures = 0 /\ cb.lastFailureTime = 0
    /\ cb.onStateChange = <<>>

\* C19 as stated: every call with a bad input, whatever its options, fails
\* with a validation error before any I/O.
C19_BadInputRejectedBeforeIO ==
    (bulk.pc # "none" /\ BadInput(bulk.args)) => RejectedBeforeIO

\* C19: a bulk operation called with an empty list or a non-list, and a single
\* lookup called with a malformed phone and validation not disabled
\* (options.validate !== false), fails with a validation error before any
\* I/O: no network call, no hook call, no breaker check, no change of the
\* breaker, and nothing more happens after the error.
C19_ValidationBeforeIO ==
    /\ []((bulk.pc # "none" /\ BadInput(bulk.args)
              /\ (bulk.args.method = "lookupSingle" => bulk.args.validate))
            => RejectedBeforeIO)
    /\ [][(bulk.pc = "done" /\ bulk.outcome.cls = "ValidationError")
            => (op' = op /\ cb' = cb /\ calls' = calls /\ bulk' = bulk)]_vars

\* lookupSingle was called with a phone of three digits and rejected with a
\* ValidationError of status 422
C19_Witness ==
    /\ bulk.pc = "done"
    /\ bulk.args.method = "lookupSingle"
    /\ bulk.args.validate
    /\ Malformed(bulk.args.input.items[1])
    /\ bulk.outcome = ValidationError(422)
    /\ op[Caller] = Idle

\* the step ends an attempt of r with a non-2xx response
HttpFailure(r, r2) == r.pc = "body" /\ r.status # 200 /\ r2.pc # "body"

\* the step ends an attempt of r with fetch rejecting on a transport failure
TransportFailure(r, r2) ==
    r.pc = "fetch" /\ ~r.ctrlAborted /\ r2.pc \notin {"fetch", "body"}

\* the step ends an attempt of r whose per-attempt timeout fired, the signal
\* of the caller not being aborted
InternalTimeout(r, r2) ==
    r.pc = "fetch" /\ r.ctrlAborted /\ ~r.aborted /\ r2.pc # "fetch"

\* the step ends an attempt of r on the aborted signal of the caller, in
\* flight or at the re-check after the backoff
ExternalCancellation(r, r2) ==
    \/ r.pc = "fetch" /\ r.ctrlAborted /\ r.aborted /\ r2.pc # "fetch"
    \/ r.pc = "sleep" /\ r.aborted /\ (r2.pc # "sleep" \/ r2.attempt # r.attempt)

\* the loop goes on to the next attempt
NextAttempt(r, r2) == r2.pc = "sleep" /\ r2.attempt = r.attempt + 1

\* C20: an attempt that failed while attempts remain is followed by another
\* attempt if and only if it failed with HTTP 5xx, 408 or 429, with a
\* transport failure, or with the internal timeout; after any other HTTP
\* status and after an external cancellation no attempt follows.
C20_RetryIffTransient ==
    [][\A o \in Ops :
          LET r == op[o]
              r2 == op'[o]
          IN (HttpFailure(r, r2) \/ TransportFailure(r, r2)
                \/ InternalTimeout(r, r2) \/ ExternalCancellation(r, r2)) =>
                (NextAttempt(r, r2) <=>
                    /\ r.attempt < retries
                    /\ \/ /\ HttpFailure(r, r2)
                          /\ r.status >= 500 \/ r.status = 408 \/ r.status = 429
                       \/ TransportFailure(r, r2)
                       \/ InternalTimeout(r, r2))]_vars

\* the caller disabled auto-batching, or bulkLookupSimple was asked for a
\* response format that is not JSON
Unbatched(args) ==
    \/ ~args.autoBatch
    \/ args.method = "bulkLookupSimple" /\ args.responseFormat # "json"

\* the unbatched operation has requested nothing but one batch that is the
\* whole list, through at most one invocation of _request
OneRequestWithAll ==
    /\ bulk.batches = <<bulk.args.input.items>>
    /\ bulk.requests = <<bulk.args.input.items>>
    /\ calls = 1

\* the properties of a returned object; any other value is taken as it is
PropertiesOf(value) ==
    IF "fields" \in DOMAIN value THEN value.fields ELSE value

\* C21 as stated: every unbatched bulk operation, emailBulk included, sends
\* one request with all N items and returns the upstream response as it is.
C21_UnbatchedReturnsUpstream ==
    (InBulk /\ Unbatched(bulk.args) /\ ValidArgs(bulk.args)) =>
        /\ OneRequestWithAll
        /\ (bulk.pc = "done" /\ bulk.outcome.cls = "ok") =>
              /\ Len(bulk.results) = 1
              /\ PropertiesOf(bulk.value) = PropertiesOf(bulk.results[1])

\* C21: an unbatched bulk operation over N items sends exactly one request
\* with all N items in input order; bulkLookup and bulkLookupSimple return
\* the upstream response as it is, and emailBulk returns the upstream good
\* list together with bad = the submitted items that are not in it, nothing
\* being merged.
C21_UnbatchedOneRequest ==
    (InBulk /\ Unbatched(bulk.args) /\ ValidArgs(bulk.args)) =>
        /\ OneRequestWithAll
        /\ (bulk.pc = "done" /\ bulk.outcome.cls = "ok") =>
              /\ Len(bulk.results) = 1
              /\ IF bulk.args.method = "emailBulk"
                 THEN /\ DOMAIN bulk.value = {"good", "bad"}
                      /\ bulk.value.good = Prop(bulk.results[1], "good", <<>>)
                      /\ bulk.value.bad =
                            FilterBad(bulk.args.input.items, LowerSet(bulk.value.good))
                 ELSE bulk.value = bulk.results[1]

\* bulkLookupSimple with a response format that is not JSON sent five items,
\* more than fit one batch, in one request and returned the text it got
C21_Witness ==
    /\ InBulk
    /\ bulk.args.method = "bulkLookupSimple"
    /\ bulk.args.responseFormat # "json"
    /\ bulk.args.autoBatch
    /\ Len(bulk.args.input.items) = MaxItems
    /\ MaxItems > BatchLimit
    /\ bulk.pc = "done"
    /\ bulk.requests = <<bulk.args.input.items>>
    /\ bulk.value = Text

\* C22: a client constructed without a circuitBreaker option never rejects an
\* operation with CircuitBreakerError, however many operations failed before,
\* and no step changes its breaker or calls an observer.
C22_DisabledBreakerIsInert ==
    /\ [](~cb.enabled =>
            /\ \A o \in Ops : op[o].outcome # CircuitBreakerError
            /\ cb.onStateChange = <<>>)
    /\ [][~cb.enabled => cb' = cb]_vars

\* without a breaker, an operation is on the network after as many
\* operations in a row failed as would have opened any breaker
C22_Witness ==
    /\ ~cb.enabled
    /\ streak >= MaxThreshold
    /\ \E o \in Ops : op[o].pc = "fetch"

\* C23: the observer is told the new state in the very step in which the
\* breaker changes its state, once, and is told nothing in a step that leaves
\* the state as it is; failures of concurrent operations recorded while the
\* breaker is OPEN do not report OPEN again.
C23_ObserverOncePerTransition ==
    [][IF cb'.state # cb.state
       THEN cb'.onStateChange = Append(cb.onStateChange, cb'.state)
       ELSE cb'.onStateChange = cb.onStateChange]_vars

\* two concurrent operations failed, the second one while the breaker was
\* already OPEN, and the observer was told OPEN once
C23_Witness ==
    /\ cb.state = "OPEN"
    /\ cb.failures > cb.failureThreshold
    /\ cb.onStateChange = <<"OPEN">>
    /\ \A o \in Ops : op[o].pc = "done" /\ IsFailure(op[o].outcome)

\* the step in which the operation of caller o returns its data: the success
\* is reported to the breaker
SuccessReported(o) ==
    /\ op[o].pc # "done"
    /\ op'[o].pc = "done"
    /\ op'[o].outcome.cls = "ok"

\* the step takes the breaker into CLOSED
EntersClosed == cb.state # "CLOSED" /\ cb'.state = "CLOSED"

\* C24 as stated: a success reported in any state of the breaker, OPEN
\* included, sets failures to 0, and failures is 0 whenever CLOSED is entered.
C24_AnySuccessResets ==
    [][/\ \A o \in Ops : SuccessReported(o) => cb'.failures = 0
       /\ EntersClosed => cb'.failures = 0]_vars

\* C24: a success reported while the breaker is CLOSED or HALF_OPEN sets
\* failures to 0, a success reported while it is OPEN leaves the breaker as
\* it is, and failures is 0 whenever CLOSED is entered.
C24_SuccessResetsUnlessOpen ==
    [][/\ \A o \in Ops :
             SuccessReported(o) =>
                IF cb.state = "OPEN" THEN cb' = cb ELSE cb'.failures = 0
       /\ EntersClosed => cb'.failures = 0]_vars

\* the probe of a breaker that had opened succeeded: CLOSED was entered with
\* failures back at 0
C24_Witness ==
    /\ cb.state = "CLOSED"
    /\ cb.failures = 0
    /\ cb.lastFailureTime # 0
    /\ Len(cb.onStateChange) >= 3
    /\ cb.onStateChange[Len(cb.onStateChange)] = "CLOSED"
    /\ \E o \in Ops : op[o].pc = "done" /\ op[o].outcome.cls = "ok"

\* C25: failures grows only in a step taken while the breaker is CLOSED or
\* HALF_OPEN, never while it is OPEN, and it goes back to 0 only in a step
\* that enters CLOSED or that reports a success while CLOSED.
C25_FailuresMoveOnlyWhenAllowed ==
    [][/\ cb'.failures > cb.failures => cb.state \in {"CLOSED", "HALF_OPEN"}
       /\ (cb.failures # 0 /\ cb'.failures = 0) =>
             \/ EntersClosed
             \/ cb.state = "CLOSED" /\ \E o \in Ops : SuccessReported(o)]_vars

\* C26: an enabled breaker that is OPEN has a lastFailureTime, one that is not
\* in the future, so that the cooldown test of _checkCircuitBreaker is made
\* and, once resetTimeoutMs has passed, lets the next operation through.
C26_OpenHasTimestamp ==
    (cb.enabled /\ cb.state = "OPEN") =>
        /\ cb.lastFailureTime # 0
        /\ cb.lastFailureTime <= now
        /\ now - cb.lastFailureTime >= cb.resetTimeoutMs =>
              /\ ~CheckCircuitBreaker(cb, now).throws
              /\ CheckCircuitBreaker(cb, now).cb.state = "HALF_OPEN"

\* the breaker is OPEN and its cooldown has passed
C26_Witness ==
    /\ cb.enabled
    /\ cb.state = "OPEN"
    /\ cb.lastFailureTime # 0
    /\ now - cb.lastFailureTime >= cb.resetTimeoutMs

\* the per-batch lists of property f appended in batch order
Appended(results, f) ==
    ConcatAll([j \in 1..Len(results) |-> Prop(results[j], f, <<>>)])

WithoutBad(results) ==
    [j \in 1..Len(results) |->
        Object([f \in DOMAIN results[j].fields \ {"bad"} |-> results[j].fields[f]])]

C28_FailureReportedOnceAtEnd ==
    [][\A o \in callers :
          LET r == op[o]
              r2 == op'[o]
          IN /\ (Running(r) /\ r2.pc # "done") => cb' = cb
             /\ NextAttempt(r, r2) => cb' = cb
             /\ (Running(r) /\ r2.pc = "done" /\ IsFailure(r2.outcome) /\ cb.enabled) =>
                   /\ cb'.failures = cb.failures + 1
                   /\ cb'.lastFailureTime = now
             /\ ~Running(r) => cb'.failures = cb.failures]_vars

\* an operation with the largest number of retries failed on every attempt
\* and the breaker counts one failure
C28_Witness ==
    /\ retries = MaxRetries
    /\ cb.enabled
    /\ calls = 1
    /\ op[Caller].pc = "done"
    /\ IsFailure(op[Caller].outcome)
    /\ op[Caller].fetchCalls = retries + 1
    /\ cb.failures = 1

C30_BackoffBounds ==
    (pure.fn = "backoff" /\ pure.returned) =>
        LET a == pure.attempt
            out == pure.out
        IN IF a = 0 THEN ~out.slept
           ELSE /\ out.slept
                /\ out.delay = IF a >= 8 THEN 10000 ELSE 100 * 2 ^ (a - 1)
                /\ a = 1 => out.delay = 100
                /\ a = 2 => out.delay = 200
                /\ a = 3 => out.delay = 400
                /\ 3 * out.delay * out.jitter.den <= 4 * out.jitter.num
                /\ 4 * out.jitter.num <= 5 * out.delay * out.jitter.den
                /\ 75 * out.jitter.den <= out.jitter.num
                /\ out.jitter.num <= 12500 * out.jitter.den

\* the backoff before attempt 8, the first one at the cap, with the largest
\* value of Math.random()
C30_Witness ==
    /\ pure.fn = "backoff"
    /\ pure.returned
    /\ pure.attempt = 8
    /\ pure.random = RandomSteps - 1
    /\ pure.out.delay = MaxDelayMs
    /\ pure.out.jitter.num > MaxDelayMs * pure.out.jitter.den

\* C31: when the fetch of an attempt is aborted and the signal of the caller
\* is not, the attempt failed with 'Request timeout': another attempt follows
\* and the breaker is left alone while attempt < retries, otherwise the
\* failure is reported to the breaker and thrown; when the signal of the
\* caller is aborted by then, the operation ends with 'Request aborted', no
\* attempt follows and the breaker is left alone.
C31_TimeoutRetriedAbortNot ==
    [][\A o \in callers :
          LET r == op[o]
              r2 == op'[o]
          IN /\ InternalTimeout(r, r2) =>
                   IF r.attempt < retries
                   THEN NextAttempt(r, r2) /\ cb' = cb
                   ELSE /\ r2.pc = "done"
                        /\ r2.outcome = TimeoutError("Request timeout")
                        /\ cb' = RecordFailure(cb, now)
                        /\ cb.enabled => cb'.failures = cb.failures + 1
             /\ (r.pc = "fetch" /\ r.ctrlAborted /\ r.aborted /\ r2.pc # "fetch") =>
                   /\ r2.pc = "done"
                   /\ r2.outcome = TimeoutError("Request aborted")
                   /\ cb' = cb]_vars

\* every attempt of an operation with retries ran into the internal timeout:
\* the operation ended with 'Request timeout', reported once
C31_Witness ==
    /\ retries >= 1
    /\ cb.enabled
    /\ calls = 1
    /\ op[Caller].pc = "done"
    /\ ~op[Caller].aborted
    /\ op[Caller].outcome = TimeoutError("Request timeout")
    /\ op[Caller].attempt = retries
    /\ cb.failures = 1

\* C32: with an onRequest hook, fetch is called only in the step in which the
\* hook call of that attempt completes, so every fetch of the operation, the
\* first and those of the retries, has its own completed hook call before
\* it; with an onResponse hook, the hook is called only when the body of a
\* 2xx response has been read, and the operation returns its data only in
\* the step in which that hook call completes.
C32_HooksAroundEachAttempt ==
    /\ [](\A o \in callers :
             onRequest =>
                /\ op[o].pc = "onRequest" => op[o].fetchCalls < op[o].onRequestCalls
                /\ op[o].pc # "onRequest" => op[o].fetchCalls <= op[o].onRequestCalls)
    /\ [][\A o \in callers :
             LET r == op[o]
                 r2 == op'[o]
             IN /\ (onRequest /\ Running(r) /\ r2.fetchCalls > r.fetchCalls) =>
                      r.pc = "onRequest" /\ r2.fetchCalls = r.fetchCalls + 1
                /\ (r.pc # "onResponse" /\ r2.pc = "onResponse") =>
                      onResponse /\ r.pc = "body" /\ r.status = 200
                /\ (onResponse /\ Running(r) /\ r2.pc = "done" /\ r2.outcome.cls = "ok") =>
                      r.pc = "onResponse"]_vars

\* an operation with hooks returned its data on its last retry: each of its
\* fetch calls had its own onRequest call
C32_Witness ==
    /\ onRequest
    /\ onResponse
    /\ retries >= 1
    /\ op[Caller].pc = "done"
    /\ op[Caller].outcome.cls = "ok"
    /\ op[Caller].fetchCalls = retries + 1
    /\ op[Caller].onRequestCalls = retries + 1

\* what the caller reads as value[f]: the property, or nothing when value is
\* an array or an object without it
Read(value, f) ==
    IF "kind" \in DOMAIN value
    THEN IF value.kind = "object" /\ f \in DOMAIN value.fields
         THEN [defined |-> TRUE, v |-> value.fields[f]]
         ELSE [defined |-> FALSE]
    ELSE [defined |-> TRUE, v |-> value[f]]

\* C33: what a JSON bulk phone lookup returns has the counters and lists of
\* _mergeBulkResults applied to the responses of its batches in batch order,
\* whatever the number of batches, one batch included.
C33_BulkValueIsMerge ==
    (/\ InBulk
     /\ bulk.args.method \in {"bulkLookupSimple", "bulkLookup"}
     /\ bulk.args.responseFormat = "json"
     /\ bulk.pc = "done"
     /\ bulk.outcome.cls = "ok") =>
        \A f \in {"numbers", "count", "phones", "supression", "wireless"} :
            Read(bulk.value, f) = Read(MergeBulkResults(bulk.results), f)

\* C34: an enabled breaker that is CLOSED has counted fewer failures than its
\* threshold, and never fewer than none, however the operations interleave.
C34_ClosedBelowThreshold ==
    (cb.enabled /\ cb.failureThreshold >= 1 /\ cb.state = "CLOSED") =>
        (0 <= cb.failures /\ cb.failures < cb.failureThreshold)

\* a CLOSED breaker one failure short of its threshold, with the operations
\* of both callers on the network
C34_Witness ==
    /\ cb.enabled
    /\ cb.state = "CLOSED"
    /\ cb.failures >= 1
    /\ cb.failures = cb.failureThreshold - 1
    /\ \A o \in Ops : op[o].pc = "fetch"

\* C35: the state of the breaker changes only from CLOSED to OPEN, from OPEN
\* to HALF_OPEN, from HALF_OPEN to CLOSED and from HALF_OPEN to OPEN; from
\* OPEN to HALF_OPEN only in the step in which an operation starts and the
\* breaker is checked, along the other three only in the step in which an
\* operation ends and its outcome is reported.
C35_TransitionsAlongEdges ==
    [][cb'.state # cb.state =>
          /\ <<cb.state, cb'.state>> \in
                {<<"CLOSED", "OPEN">>, <<"OPEN", "HALF_OPEN">>,
                 <<"HALF_OPEN", "CLOSED">>, <<"HALF_OPEN", "OPEN">>}
          /\ IF cb.state = "OPEN"
             THEN calls' = calls + 1 /\ \E o \in callers : ~Running(op[o])
             ELSE \E o \in callers : Running(op[o]) /\ op'[o].pc = "done"]_vars

\* the breaker has gone along all four edges: opened, probed and reopened,
\* probed again and closed
C35_Witness ==
    cb.onStateChange = <<"OPEN", "HALF_OPEN", "OPEN", "HALF_OPEN", "CLOSED">>

\* C36: the step in which an operation is rejected with CircuitBreakerError
\* happens on an OPEN breaker within its cooldown and leaves the whole
\* breaker as it is: failures, lastFailureTime, state, and what the observer
\* was told; the cooldown still runs from the last reported failure.
C36_RejectionLeavesBreaker ==
    [][(/\ calls' = calls + 1
        /\ op'[Caller].pc = "done"
        /\ op'[Caller].outcome = CircuitBreakerError) =>
           /\ cb.state = "OPEN"
           /\ now - cb.lastFailureTime < cb.resetTimeoutMs
           /\ cb' = cb]_vars

\* an operation was rejected by a breaker that had opened once
C36_Witness ==
    /\ cb.state = "OPEN"
    /\ cb.onStateChange = <<"OPEN">>
    /\ cb.failures = cb.failureThreshold
    /\ calls = cb.failureThreshold + 1
    /\ op[Caller].pc = "done"
    /\ op[Caller].outcome = CircuitBreakerError
    /\ op[Caller].fetchCalls = 0

\* C37: an invocation of _request that is not running, whichever way it ended,
\* has no timeout timer pending and no abort listener registered; the timer
\* and the listener of an attempt are also gone once its response has
\* arrived, before the body is read and the onResponse hook called.
C37_NoTimerOutlivesOperation ==
    \A o \in Ops :
        op[o].pc \in {"idle", "done", "body", "onResponse"} =>
            ~op[o].timer /\ ~op[o].listener

\* an operation with retries ended on a transport failure of its last attempt,
\* the timers and listeners of all its attempts gone
C37_Witness ==
    /\ retries >= 1
    /\ op[Caller].pc = "done"
    /\ op[Caller].outcome = NetworkError
    /\ op[Caller].attempt = retries
    /\ op[Caller].fetchCalls = retries + 1
    /\ ~op[Caller].timer
    /\ ~op[Caller].listener

\* C38: during the backoff wait of a retry the timeout timer of that attempt
\* is already pending, or has fired; once it has fired, the wait and the
\* onRequest hook still run, no response is received for that attempt, and,
\* the signal of the caller not being aborted, the fetch of the attempt ends
\* it as the internal timeout: 'Request timeout', retried or thrown.
C38_BackoffCountsAgainstTimeout ==
    /\ [](\A o \in callers :
             op[o].pc = "sleep" =>
                /\ op[o].attempt >= 1
                /\ op[o].timer \/ op[o].ctrlAborted)
    /\ [][\A o \in callers :
             LET r == op[o]
                 r2 == op'[o]
             IN (Running(r) /\ r.ctrlAborted) =>
                   /\ r2.pc # "body"
                   /\ (r.pc = "sleep" /\ ~r.aborted /\ r2.pc # "sleep") =>
                         r2.ctrlAborted /\ r2.pc \in {"onRequest", "fetch"}
                   /\ (r.pc = "fetch" /\ ~r.aborted /\ r2.pc # "fetch") =>
                         \/ NextAttempt(r, r2)
                         \/ /\ r2.pc = "done"
                            /\ r2.outcome = TimeoutError("Request timeout")]_vars

\* the timer of a retry has fired while the operation is still in its
\* backoff wait
C38_Witness ==
    /\ op[Caller].pc = "sleep"
    /\ op[Caller].attempt >= 1
    /\ op[Caller].ctrlAborted
    /\ ~op[Caller].timer
    /\ ~op[Caller].aborted

\* C39: an invocation of _request never goes beyond loop iteration retries,
\* so it has at most retries + 1 iterations with at most one fetch each and
\* at most retries backoff waits; a bulk operation makes at most one
\* invocation per batch, so at most k * (retries + 1) attempts over its k
\* batches; and, awaits settling, every invocation that runs ends and every
\* method that was called returns or throws.
C39_BoundedAndTerminates ==
    /\ [](\A o \in Ops :
             /\ op[o].attempt <= retries
             /\ op[o].fetchCalls <= op[o].attempt + 1
             /\ op[o].pc = "sleep" => op[o].attempt >= 1)
    /\ [](bulk.pc # "none" =>
             /\ calls = Len(bulk.requests)
             /\ calls <= Len(bulk.batches)
             /\ calls > 0 =>
                   (calls - 1) * (retries + 1) + op[Caller].fetchCalls
                      <= Len(bulk.batches) * (retries + 1))
    /\ Running(op[Caller]) ~> ~Running(op[Caller])
    /\ (bulk.pc = "request") ~> (bulk.pc = "done")

\* a bulk operation over three batches ended in its third invocation, which
\* used every attempt it had
C39_Witness ==
    /\ InBulk
    /\ bulk.pc = "done"
    /\ Len(bulk.batches) = 3
    /\ calls = 3
    /\ retries = MaxRetries
    /\ op[Caller].attempt = retries
    /\ op[Caller].fetchCalls = retries + 1

====
